---- MODULE Spec2Model ----
(***************************************************************************)
(* Quota-gated text-to-speech proxy (src/app.py, src/main.py).             *)
(*                                                                         *)
(* The database (tables User and GenerationLog) is the only shared state.  *)
(* Every HTTP request is served by a worker; a handler that touches the    *)
(* database more than once is split at its database statements, so that    *)
(* concurrent requests interleave there.  The session of a request runs    *)
(* at the database's default isolation: every statement reads the latest   *)
(* committed rows, and an ORM UPDATE writes the value computed in Python.  *)
(***************************************************************************)
EXTENDS Integers, Sequences, FiniteSets, TLC

\* ---------------------------------------------------------------- bounds
\* Requests served at once, days the calendar runs through, and the number of
\* quota-consuming admissions after which no further /speak request is taken in.
NumWorkers == 2
MaxDay == 2
MaxAdmit == 4
\* The longest text handed to get_emotional_ssml and the longest reply of the
\* generative model, in tokens.
MaxTextLen == 2
MaxReplyLen == 3

\* ---------------------------------------------------------------- inputs
Workers == 1..NumWorkers
Days == 1..MaxDay
Uids == {"u1", "u2"}
Emails == {"e1", "e2"}
\* The uid and the email the clients of Spec send.
Callers == {"u1"}
CallerEmails == {"e1"}
\* A missing (or empty) JSON field: falsy in Python.
NoUid == ""
NoEmail == ""
NoPlan == ""
\* plan_type values a /verify-purchase body may carry; "gold" is not in PLAN_LIMITS.
PlanInputs == {"free", "advanced", "gold"}
\* The two deployments: app.py enriches the text before the provider call.
Variants == {"app", "main"}
\* Outcomes of the provider call and of the decode of its reply.
Outcomes == {"ok", "http_error", "network_error", "decode_error"}

\* ---------------------------------------------------------------- program constants
PLAN_LIMITS == [free |-> 3, advanced |-> 100, premium |-> 500]

PlanLimitFlat(plan) == PLAN_LIMITS.free

PlanLimitDefaultFree(plan) ==
  IF plan \in DOMAIN PLAN_LIMITS THEN PLAN_LIMITS[plan] ELSE PLAN_LIMITS.free

\* PLAN_LIMITS.get(plan, 0)
PlanLimit(plan) == IF plan \in DOMAIN PLAN_LIMITS THEN PLAN_LIMITS[plan] ELSE 0

\* The id of a GenerationLog object that is not flushed yet (None in Python).
NoRow == 0

VARIABLES
  users,     \* table User: a set of rows [uid, email, plan_type]
  logs,      \* table GenerationLog: per (user_uid, generation_date), the counts of
             \* its rows in the order of their ids
  today,     \* date.today()
  req,       \* per worker: the request it serves and the handler's locals
  reply,     \* the HTTP response on its way to the client (NoReply: none)
  admitted,  \* history: per (uid, day), the commits that carried an increment
  overlap,   \* history: per uid, whether two of its /speak requests ever ran at once
  maxQuota,  \* history: per uid, the largest quota of a plan tier it has held
  enrich     \* a call of get_emotional_ssml: its inputs, its position, its result

vars == <<users, logs, today, req, reply, admitted, overlap, maxQuota, enrich>>

Max(a, b) == IF a >= b THEN a ELSE b

RECURSIVE Sum(_, _)
Sum(f, keys) ==
  IF keys = {} THEN 0
  ELSE LET k == CHOOSE x \in keys : TRUE IN f[k] + Sum(f, keys \ {k})

Keys == Uids \X Days

\* ---------------------------------------------------------------- queries
\* User.query.filter_by(uid=uid): uid is unique, so at most one row.
UserRows(u) == {r \in users : r.uid = u}
UserOf(u) == CHOOSE r \in UserRows(u) : TRUE

\* GenerationLog.query.filter_by(user_uid=uid, generation_date=day): the matching
\* rows, as positions in logs[<<uid, day>>].
LogRows(u, d) == DOMAIN logs[<<u, d>>]

\* ---------------------------------------------------------------- records
\* A worker between requests, and the locals of the handler it runs otherwise.
Idle ==
  [op |-> "idle", pc |-> "idle", uid |-> NoUid, email |-> NoEmail, ad |-> FALSE,
   plan |-> NoPlan, limit |-> 0, day |-> 0, row |-> NoRow, created |-> FALSE,
   read |-> 0, count |-> 0, decision |-> "", writes |-> 0]

\* A response: status code, body, the X-Remaining-Credits header (<<>>: absent),
\* and what the request did: its decision, the downstream calls it issued, the
\* number of GenerationLog writes it committed and how the provider call ended.  A /get-user-status response
\* carries plan_type, generations_today and daily_limit in plan, count and limit.
NoReply ==
  [op |-> "none", uid |-> NoUid, ad |-> FALSE, code |-> 0, body |-> "",
   header |-> <<>>, plan |-> NoPlan, limit |-> 0, count |-> 0, decision |-> "",
   created |-> FALSE, calls |-> <<>>, writes |-> 0, outcome |-> ""]

\* A /speak request of user u that is being served.
InFlight(w, u) == req[w].op = "speak" /\ req[w].uid = u

\* ---------------------------------------------------------------- get_emotional_ssml
\* A string is a sequence of tokens: the two envelope markers, a blank (what
\* str.strip removes) and any other text.
Tokens == {"<speak>", "</speak>", " ", "x"}
Strings(n) == UNION {[1..m -> Tokens] : m \in 0..n}

\* What the generative call does: it raises (configure, generate_content or
\* response.text), or it returns a text.
GeminiRaises == [kind |-> "raises", text |-> <<>>]
GeminiReplies == {[kind |-> "reply", text |-> s] : s \in Strings(MaxReplyLen)}

\* No call of get_emotional_ssml.
NoEnrich ==
  [pc |-> "none", text |-> <<>>, key |-> FALSE, gemini |-> GeminiRaises,
   raised |-> FALSE, result |-> <<>>]

\* str.strip(): the blanks at both ends are dropped.
RECURSIVE StripLeft(_)
StripLeft(s) == IF s # <<>> /\ Head(s) = " " THEN StripLeft(Tail(s)) ELSE s

RECURSIVE StripRight(_)
StripRight(s) ==
  IF s # <<>> /\ s[Len(s)] = " " THEN StripRight(SubSeq(s, 1, Len(s) - 1)) ELSE s

Strip(s) == StripRight(StripLeft(s))

WellFormedStartOnly(s) == s # <<>> /\ Head(s) = "<speak>"

\* Line 81: ssml_text.startswith("<speak>") and ssml_text.endswith("</speak>")
WellFormed(s) == s # <<>> /\ Head(s) = "<speak>" /\ s[Len(s)] = "</speak>"

\* f"<speak>{text_to_convert}</speak>"
Wrap(text) == <<"<speak>">> \o text \o <<"</speak>">>

\* Lines 62-85, the body of the try: what it returns, or that it raised.
TryBody(text, key, gemini) ==
  IF ~key THEN [raised |-> FALSE, value |-> Wrap(text)]
  ELSE IF gemini.kind = "raises" THEN [raised |-> TRUE, value |-> <<>>]
  ELSE LET ssml_text == Strip(gemini.text)
       IN  [raised |-> FALSE,
            value |-> IF WellFormed(ssml_text) THEN ssml_text ELSE Wrap(text)]

\* Lines 59-90: the except clause turns every exception of the body into the
\* plain envelope.
get_emotional_ssml(text, key, gemini) ==
  LET body == TryBody(text, key, gemini)
  IN  IF body.raised THEN [raised |-> FALSE, value |-> Wrap(text)] ELSE body

\* A call of get_emotional_ssml returns.
Enrich ==
  /\ enrich.pc = "call"
  /\ LET out == get_emotional_ssml(enrich.text, enrich.key, enrich.gemini)
     IN  enrich' = [enrich EXCEPT !.pc = "done", !.raised = out.raised,
                                  !.result = out.value]
  /\ UNCHANGED <<users, logs, today, req, reply, admitted, overlap, maxQuota>>

\* ---------------------------------------------------------------- /speak
\* The gatekeeper's decision (lines 162-168).
DeniedStrict(remaining, ad) == remaining < 0 /\ ~ad

Denied(remaining, ad) == remaining <= 0 /\ ~ad

NewCountAlways(remaining, count) == count + 1

NewCountAtZero(remaining, count) == IF remaining >= 0 THEN count + 1 ELSE count

NewCount(remaining, count) == IF remaining > 0 THEN count + 1 ELSE count

Decision(remaining, ad) ==
  IF Denied(remaining, ad) THEN "Deny"
  ELSE IF remaining > 0 THEN "Admit" ELSE "AdmitBypass"

RemainingOffByOne(limit, count) == limit - count + 1

\* X-Remaining-Credits: current_limit - log.count, log.count reloaded after the commit.
RemainingHeader(limit, count) == limit - count

\* The downstream calls of one admitted request, in order.
DownstreamCalls(v) == IF v = "app" THEN <<"enrich", "synth">> ELSE <<"synth">>

\* Workers are interchangeable: a new request goes to the first idle one.
Takes(w) ==
  /\ reply = NoReply
  /\ req[w].pc = "idle"
  /\ \A v \in Workers : v < w => req[v].pc # "idle"

StartCodeNoLookup(u) == IF u = NoUid \/ UserRows(u) = {} THEN 400 ELSE 0

\* Lines 148-151: the status of the early return, 0 when the handler goes on.
StartCode(u) == IF u = NoUid THEN 400 ELSE IF UserRows(u) = {} THEN 404 ELSE 0

\* Lines 144-151: the uid check and the user lookup.
SpeakStart(w, u, ad) ==
  /\ Takes(w)
  /\ Sum(admitted, Keys) < MaxAdmit
  /\ IF StartCode(u) # 0
     THEN /\ reply' = [NoReply EXCEPT !.op = "speak", !.uid = u, !.ad = ad,
                                      !.code = StartCode(u),
                                      !.body = IF u = NoUid THEN "uid_required"
                                               ELSE "user_not_found"]
          /\ UNCHANGED <<req, overlap>>
     ELSE /\ req' = [req EXCEPT ![w] =
               [Idle EXCEPT !.op = "speak", !.pc = "log", !.uid = u, !.ad = ad,
                            !.plan = UserOf(u).plan_type]]
          /\ overlap' = IF \E v \in Workers \ {w} : InFlight(v, u)
                        THEN [overlap EXCEPT ![u] = TRUE] ELSE overlap
          /\ reply' = NoReply
  /\ UNCHANGED <<users, logs, today, admitted, maxQuota, enrich>>

\* Line 165: the denial; the handler returns with nothing called or committed.
DenyReply(r, limit, row, count) ==
  [NoReply EXCEPT !.op = "speak", !.uid = r.uid, !.ad = r.ad, !.code = 429,
                  !.body = "daily_limit_reached", !.limit = limit, !.count = count,
                  !.decision = "Deny", !.created = (row = NoRow)]

\* Lines 157-168 on the record found (row, count) or created (NoRow, 0).
Gate(w, row, count) ==
  LET r == req[w]
      limit == PlanLimit(r.plan)
      remaining == limit - count
  IN  IF Denied(remaining, r.ad)
      THEN /\ req' = [req EXCEPT ![w] = Idle]
           /\ reply' = DenyReply(r, limit, row, count)
      ELSE /\ req' = [req EXCEPT ![w] =
                [r EXCEPT !.pc = "commit", !.plan = NoPlan, !.limit = limit,
                          !.day = today,
                          !.row = row, !.created = (row = NoRow), !.read = count,
                          !.count = NewCount(remaining, count),
                          !.decision = Decision(remaining, r.ad)]]
           /\ reply' = NoReply

\* Lines 154-168: today's record is fetched (.first(): any matching row) or created
\* in the session, then the decision is taken; a denial returns before the commit.
SpeakGate(w) ==
  /\ reply = NoReply
  /\ req[w].op = "speak" /\ req[w].pc = "log"
  /\ IF LogRows(req[w].uid, today) = {}
     THEN Gate(w, NoRow, 0)
     ELSE \E i \in LogRows(req[w].uid, today) :
            Gate(w, i, logs[<<req[w].uid, today>>][i])
  /\ UNCHANGED <<users, logs, today, admitted, overlap, maxQuota, enrich>>

FlushesAlways(row, read, count) == 1

\* The statements the commit of line 170 flushes: the INSERT of a new object, the
\* UPDATE of one whose count changed, none for an unchanged one.
Flushes(row, read, count) == IF row = NoRow \/ count # read THEN 1 ELSE 0

\* Line 170: db.session.commit() flushes the pending INSERT, or the UPDATE of a
\* changed count (SET count = the value computed in Python), or nothing.
SpeakCommit(w) ==
  LET r == req[w]
      k == <<r.uid, r.day>>
      n == Flushes(r.row, r.read, r.count)
  IN
  /\ reply = NoReply
  /\ r.op = "speak" /\ r.pc = "commit"
  /\ logs' = IF n = 0 THEN logs
             ELSE IF r.row = NoRow THEN [logs EXCEPT ![k] = Append(@, r.count)]
             ELSE [logs EXCEPT ![k][r.row] = r.count]
  /\ req' = [req EXCEPT ![w] =
       [r EXCEPT !.pc = "call", !.writes = n, !.plan = NoPlan, !.read = 0,
                 !.count = 0,
                 !.row = IF r.row = NoRow THEN Len(logs[k]) + 1 ELSE r.row]]
  /\ admitted' = IF r.decision = "Admit"
                 THEN [admitted EXCEPT ![k] = @ + 1] ELSE admitted
  /\ reply' = NoReply
  /\ UNCHANGED <<users, today, overlap, maxQuota, enrich>>

LogsRefunded(r, outcome) ==
  IF outcome # "ok" /\ r.decision = "Admit"
  THEN [logs EXCEPT ![<<r.uid, r.day>>][r.row] = @ - 1] ELSE logs

LogsPurged(r, outcome) == [k \in Keys |-> IF k[2] < today THEN <<>> ELSE logs[k]]

\* Lines 197-200: the table after the provider call; no handler rolls the
\* committed count back.
LogsAfterCall(r, outcome) == logs

SynthBodyGeneric(outcome) == IF outcome = "ok" THEN "audio" ELSE "unexpected_error"

\* Lines 193-200: the body of the response: the audio, the provider's error
\* (HTTPError of raise_for_status), or the generic error of any other exception.
SynthBody(outcome) ==
  IF outcome = "ok" THEN "audio"
  ELSE IF outcome = "http_error" THEN "google_api_error" ELSE "unexpected_error"

\* Lines 195, 198, 200: the status of the response.
SynthStatus(outcome) == IF outcome = "ok" THEN 200 ELSE 500

\* Lines 173-200: enrichment (app.py), the provider call, and the response.
SpeakCall(w, v, outcome) ==
  LET r == req[w]
      stored == logs[<<r.uid, r.day>>][r.row]
      sent == [NoReply EXCEPT !.op = "speak", !.uid = r.uid, !.ad = r.ad,
                              !.limit = r.limit, !.decision = r.decision,
                              !.created = r.created,
                              !.calls = DownstreamCalls(v), !.writes = r.writes,
                              !.outcome = outcome, !.code = SynthStatus(outcome),
                              !.body = SynthBody(outcome)]
  IN
  /\ reply = NoReply
  /\ r.op = "speak" /\ r.pc = "call"
  /\ req' = [req EXCEPT ![w] = Idle]
  /\ reply' =
       IF outcome = "ok"
       THEN [sent EXCEPT !.count = stored,
                         !.header = <<RemainingHeader(r.limit, stored)>>]
       ELSE sent
  /\ logs' = LogsAfterCall(r, outcome)
  /\ UNCHANGED <<users, today, admitted, overlap, maxQuota, enrich>>

\* ---------------------------------------------------------------- /register
\* Lines 97-102 and 107: the field check and the lookup by uid.
RegisterStart(w, u, e) ==
  /\ Takes(w)
  /\ IF u = NoUid \/ e = NoEmail
     THEN /\ reply' = [NoReply EXCEPT !.op = "register", !.uid = u, !.code = 400]
          /\ req' = req
     ELSE IF UserRows(u) # {}
     THEN /\ reply' = [NoReply EXCEPT !.op = "register", !.uid = u, !.code = 200]
          /\ req' = req
     ELSE /\ req' = [req EXCEPT ![w] =
               [Idle EXCEPT !.op = "register", !.pc = "insert", !.uid = u,
                            !.email = e]]
          /\ reply' = NoReply
  /\ UNCHANGED <<users, logs, today, admitted, overlap, maxQuota, enrich>>

\* Lines 103-106: the INSERT; uid and email are unique columns, and the handler
\* does not catch the IntegrityError of a duplicate (Flask answers 500).
RegisterInsert(w) ==
  LET r == req[w] IN
  /\ reply = NoReply
  /\ r.op = "register" /\ r.pc = "insert"
  /\ req' = [req EXCEPT ![w] = Idle]
  /\ IF \E x \in users : x.uid = r.uid \/ x.email = r.email
     THEN /\ reply' = [NoReply EXCEPT !.op = "register", !.uid = r.uid, !.code = 500]
          /\ UNCHANGED <<users, maxQuota>>
     ELSE /\ users' = users \cup {[uid |-> r.uid, email |-> r.email,
                                   plan_type |-> "free"]}
          /\ reply' = [NoReply EXCEPT !.op = "register", !.uid = r.uid, !.code = 201]
          /\ maxQuota' = [maxQuota EXCEPT ![r.uid] = Max(@, PlanLimit("free"))]
  /\ UNCHANGED <<logs, today, admitted, overlap, enrich>>

\* ---------------------------------------------------------------- /get-user-status
\* Lines 109-121.
GetUserStatus(u) ==
  /\ reply = NoReply
  /\ IF UserRows(u) = {}
     THEN reply' = [NoReply EXCEPT !.op = "status", !.uid = u, !.code = 404,
                                   !.body = "user_not_found"]
     ELSE \E n \in IF LogRows(u, today) = {} THEN {0}
                   ELSE {logs[<<u, today>>][i] : i \in LogRows(u, today)} :
            reply' = [NoReply EXCEPT !.op = "status", !.uid = u, !.code = 200,
                                     !.plan = UserOf(u).plan_type, !.count = n,
                                     !.limit = PlanLimit(UserOf(u).plan_type)]
  /\ UNCHANGED <<users, logs, today, req, admitted, overlap, maxQuota, enrich>>

\* ---------------------------------------------------------------- /verify-purchase
\* Lines 123-139 (is_verified is the constant True).
PurchasableAnyPlan(u, p) == UserRows(u) # {}

\* Line 134: the user exists and the plan is a key of PLAN_LIMITS.
Purchasable(u, p) == UserRows(u) # {} /\ p \in DOMAIN PLAN_LIMITS

VerifyPurchase(u, p) ==
  /\ reply = NoReply
  /\ IF Purchasable(u, p)
     THEN /\ users' = (users \ UserRows(u)) \cup
                      {[UserOf(u) EXCEPT !.plan_type = p]}
          /\ maxQuota' = [maxQuota EXCEPT ![u] = Max(@, PlanLimit(p))]
          /\ reply' = [NoReply EXCEPT !.op = "verify", !.uid = u, !.plan = p,
                                      !.code = 200]
     ELSE /\ reply' = [NoReply EXCEPT !.op = "verify", !.uid = u, !.plan = p,
                                      !.code = 400]
          /\ UNCHANGED <<users, maxQuota>>
  /\ UNCHANGED <<logs, today, req, admitted, overlap, enrich>>

\* ---------------------------------------------------------------- the calendar
\* date.today() moves to the next day.
Midnight ==
  /\ reply = NoReply
  /\ today < MaxDay
  /\ today' = today + 1
  /\ UNCHANGED <<users, logs, req, reply, admitted, overlap, maxQuota, enrich>>

\* ---------------------------------------------------------------- the client
\* The response leaves the server.  Responses are observed one at a time: the
\* handlers' steps wait for the one on its way, which changes nothing they read.
Receive ==
  /\ reply # NoReply
  /\ reply' = NoReply
  /\ UNCHANGED <<users, logs, today, req, admitted, overlap, maxQuota, enrich>>

\* ---------------------------------------------------------------- specification
Init ==
  /\ users = {}
  /\ logs = [k \in Keys |-> <<>>]
  /\ today = 1
  /\ req = [w \in Workers |-> Idle]
  /\ reply = NoReply
  /\ admitted = [k \in Keys |-> 0]
  /\ overlap = [u \in Uids |-> FALSE]
  /\ maxQuota = [u \in Uids |-> 0]
  /\ enrich = NoEnrich

Next ==
  \/ \E w \in Workers, u \in Callers \cup {NoUid}, ad \in BOOLEAN :
       SpeakStart(w, u, ad)
  \/ \E w \in Workers : SpeakGate(w)
  \/ \E w \in Workers : SpeakCommit(w)
  \/ \E w \in Workers, v \in Variants, o \in Outcomes : SpeakCall(w, v, o)
  \/ \E w \in Workers, u \in Callers \cup {NoUid}, e \in CallerEmails \cup {NoEmail} :
       RegisterStart(w, u, e)
  \/ \E w \in Workers : RegisterInsert(w)
  \/ \E u \in Callers : GetUserStatus(u)
  \/ \E u \in Callers \cup {NoUid}, p \in PlanInputs : VerifyPurchase(u, p)
  \/ Midnight
  \/ Receive

Spec == Init /\ [][Next]_vars

\* The same program started on a database that holds a user whose plan_type is
\* no key of PLAN_LIMITS (the column is a free string of 50 characters), serving
\* clients that call /speak and /get-user-status and may buy the free plan.
InitLegacy ==
  /\ users = {[uid |-> "u1", email |-> "e1", plan_type |-> "legacy"]}
  /\ logs = [k \in Keys |-> <<>>]
  /\ today = 1
  /\ req = [w \in Workers |-> Idle]
  /\ reply = NoReply
  /\ admitted = [k \in Keys |-> 0]
  /\ overlap = [u \in Uids |-> FALSE]
  /\ maxQuota = [u \in Uids |-> 0]
  /\ enrich = NoEnrich

NextLegacy ==
  \/ \E w \in Workers, u \in Callers \cup {NoUid}, ad \in BOOLEAN :
       SpeakStart(w, u, ad)
  \/ \E w \in Workers : SpeakGate(w)
  \/ \E w \in Workers : SpeakCommit(w)
  \/ \E w \in Workers, v \in Variants, o \in Outcomes : SpeakCall(w, v, o)
  \/ \E u \in Callers : GetUserStatus(u)
  \/ \E u \in Callers : VerifyPurchase(u, "free")
  \/ Midnight
  \/ Receive

SpecLegacy == InitLegacy /\ [][NextLegacy]_vars

\* The same program once both users are registered (tier free), serving /speak
\* requests of either user across the days.
InitTwoUsers ==
  /\ users = {[uid |-> "u1", email |-> "e1", plan_type |-> "free"],
              [uid |-> "u2", email |-> "e2", plan_type |-> "free"]}
  /\ logs = [k \in Keys |-> <<>>]
  /\ today = 1
  /\ req = [w \in Workers |-> Idle]
  /\ reply = NoReply
  /\ admitted = [k \in Keys |-> 0]
  /\ overlap = [u \in Uids |-> FALSE]
  /\ maxQuota = [u \in Uids |-> PlanLimit("free")]
  /\ enrich = NoEnrich

NextTwoUsers ==
  \/ \E w \in Workers, u \in Uids, ad \in BOOLEAN : SpeakStart(w, u, ad)
  \/ \E w \in Workers : SpeakGate(w)
  \/ \E w \in Workers : SpeakCommit(w)
  \/ \E w \in Workers, v \in Variants, o \in Outcomes : SpeakCall(w, v, o)
  \/ Midnight
  \/ Receive

SpecTwoUsers == InitTwoUsers /\ [][NextTwoUsers]_vars

\* get_emotional_ssml on its own: called with any text, with or without the
\* credential, against a generative call that raises or returns any text.
InitEnrich ==
  /\ users = {}
  /\ logs = [k \in Keys |-> <<>>]
  /\ today = 1
  /\ req = [w \in Workers |-> Idle]
  /\ reply = NoReply
  /\ admitted = [k \in Keys |-> 0]
  /\ overlap = [u \in Uids |-> FALSE]
  /\ maxQuota = [u \in Uids |-> 0]
  /\ \E t \in Strings(MaxTextLen), k \in BOOLEAN,
        g \in {GeminiRaises} \cup GeminiReplies :
       enrich = [NoEnrich EXCEPT !.pc = "call", !.text = t, !.key = k, !.gemini = g]

NextEnrich == Enrich

SpecEnrich == InitEnrich /\ [][NextEnrich]_vars

\* ---------------------------------------------------------------- steps of a /speak request
\* The step of worker w that takes the decision, commits, and answers after the
\* provider call.
GateStep(w) == req[w].op = "speak" /\ req[w].pc = "log" /\ req'[w].pc # "log"
CommitStep(w) == req[w].op = "speak" /\ req[w].pc = "commit" /\ req'[w].pc = "call"
CallStep(w) == req[w].op = "speak" /\ req[w].pc = "call" /\ req'[w].pc = "idle"

\* The remaining credits the request of worker w may compute at its decision: one
\* per record of today it may fetch, or the quota itself when it creates one.
Remainings(w) ==
  IF LogRows(req[w].uid, today) = {} THEN {PlanLimit(req[w].plan)}
  ELSE {PlanLimit(req[w].plan) - logs[<<req[w].uid, today>>][i] :
          i \in LogRows(req[w].uid, today)}

\* Every row that exists keeps its count.
CountsKept == \A k \in Keys : \A i \in DOMAIN logs[k] : logs'[k][i] = logs[k][i]

\* ---------------------------------------------------------------- claims

\* C1: no lost updates: the stored count of a (user, day) that has one record is
\* the number of admitted (remaining > 0) requests committed for it, so K
\* concurrent admitted requests raise it by exactly K.
C1_NoLostUpdates ==
  \A k \in Keys : Len(logs[k]) = 1 => logs[k][1] = admitted[k]

\* C2: quota exhaustion: once exactly Q = PLAN_LIMITS[T] requests of a user of
\* tier T were admitted and committed on a day, the next /speak of that user on
\* that day without ad proof is denied with 429.
C2_QuotaExhaustion ==
  [][\A w \in Workers :
       ( /\ GateStep(w)
         /\ ~req[w].ad
         /\ UserOf(req[w].uid).plan_type = req[w].plan
         /\ admitted[<<req[w].uid, today>>] = PlanLimit(req[w].plan)
         /\ \A v \in Workers \ {w} : ~InFlight(v, req[w].uid) )
       => reply'.code = 429]_vars

\* C3: ad-proof bypass: a /speak request that carries an ad proof is never
\* answered 429, and when remaining <= 0 at its decision none of its steps
\* changes the count of an existing record.
C3_AdProofBypass ==
  [][\A w \in Workers :
       /\ (GateStep(w) /\ req[w].ad) => (reply'.code # 429 /\ req'[w].pc = "commit")
       /\ ((CommitStep(w) \/ CallStep(w)) /\ req[w].decision = "AdmitBypass")
            => CountsKept]_vars

\* C3 (witness): the fourth call of a free user, with ad proof, answered 200 with
\* X-Remaining-Credits 0 and the count still 3.
C3_Witness ==
  /\ reply.op = "speak" /\ reply.ad /\ reply.decision = "AdmitBypass"
  /\ reply.code = 200 /\ reply.header = <<0>> /\ reply.limit = 3
  /\ logs[<<reply.uid, today>>] = <<3>>

\* C4 (as claimed): the count of each user's record of the current day is at most
\* the daily quota of the user's plan tier.
C4_CountWithinQuota ==
  \A u \in Uids : UserRows(u) # {} =>
    \A i \in DOMAIN logs[<<u, today>>] :
      logs[<<u, today>>][i] <= PlanLimit(UserOf(u).plan_type)

\* C4 (amended): the count of every record is at most the largest daily quota of
\* a plan tier its user has held.
C4_CountWithinLargestQuota ==
  \A k \in Keys : \A i \in DOMAIN logs[k] : logs[k][i] <= maxQuota[k[1]]

\* C4 (witness): a free user who never held another tier has used the whole quota.
C4_Witness ==
  /\ UserRows("u1") # {} /\ maxQuota["u1"] = 3
  /\ logs[<<"u1", today>>] = <<3>>

\* C5: at most one record per (user, day).
C5_OneRecordPerUserDay == \A k \in Keys : Len(logs[k]) <= 1

C7_DenyShortCircuits ==
  /\ [](reply.code = 429 =>
          /\ reply.decision = "Deny" /\ ~reply.ad
          /\ reply.calls = <<>> /\ reply.writes = 0)
  /\ [][\A w \in Workers :
          /\ (GateStep(w) /\ ~req[w].ad /\ \A x \in Remainings(w) : x <= 0)
               => reply'.code = 429
          /\ (GateStep(w) /\ reply'.code = 429)
               => (logs' = logs /\ req'[w] = Idle)]_vars

\* C7 (witness): a free user with count 3 is denied.
C7_Witness ==
  /\ reply.op = "speak" /\ reply.code = 429 /\ reply.limit = 3 /\ reply.count = 3
  /\ logs[<<reply.uid, today>>] = <<3>>

\* C8: a /speak call without uid is answered 400 and one for an unknown uid 404,
\* with no record created or changed, no request state left and no downstream
\* call; /get-user-status for an unknown uid is answered 404.
C8_EarlyErrors ==
  /\ [](reply.op = "speak" =>
          /\ reply.uid = NoUid => reply.code = 400
          /\ (reply.uid # NoUid /\ UserRows(reply.uid) = {}) => reply.code = 404
          /\ reply.code \in {400, 404} =>
               (reply.calls = <<>> /\ reply.writes = 0 /\ reply.decision = ""))
  /\ [](reply.op = "status" => (reply.code = 404 <=> UserRows(reply.uid) = {}))
  /\ [][(reply'.op = "speak" /\ reply'.code \in {400, 404})
          => (logs' = logs /\ users' = users /\ req' = req)]_vars

\* C8 (witness): /speak for a uid that is not registered is answered 404.
C8_Witness ==
  /\ reply.op = "speak" /\ reply.code = 404 /\ reply.uid = "u1"
  /\ UserRows("u1") = {} /\ \A k \in Keys : logs[k] = <<>>

\* C9: an admitted request commits count_before + 1 before any downstream call
\* is issued, and a failed provider call leaves the committed count in place.
C9_CommitBeforeCallNoRefund ==
  /\ [](reply.op = "speak" /\ reply.calls # <<>> /\ reply.decision = "Admit"
          => reply.writes = 1)
  /\ [](\A w \in Workers : req[w].pc \in {"log", "commit"} => req[w].writes = 0)
  /\ [][\A w \in Workers :
          /\ (CommitStep(w) /\ req[w].decision = "Admit") =>
               /\ logs'[<<req[w].uid, req[w].day>>][req'[w].row] = req[w].read + 1
               /\ reply' = NoReply
          /\ CallStep(w) => (logs' = logs /\ reply'.calls # <<>>)]_vars

\* C9 (witness): the provider call of an admitted request failed (500) and the
\* incremented count is stored.
C9_Witness ==
  /\ reply.op = "speak" /\ reply.code = 500 /\ reply.decision = "Admit"
  /\ logs[<<reply.uid, today>>] = <<1>> /\ admitted[<<reply.uid, today>>] = 1

\* C10: a successful /speak response reports the quota the request looked up
\* minus the count stored once its own update is committed; for a user whose
\* requests never ran at once that is quota minus the number of requests admitted
\* that day (2, 1, 0 for a free user), and a request without ad proof that finds
\* the whole quota admitted is answered 429.
C10_RemainingCredits ==
  [][\A w \in Workers :
       /\ (CallStep(w) /\ reply'.code = 200) =>
            /\ reply'.header =
                 <<req[w].limit - logs'[<<req[w].uid, req[w].day>>][req[w].row]>>
            /\ ~overlap[req[w].uid] =>
                 reply'.header =
                   <<req[w].limit - admitted[<<req[w].uid, req[w].day>>]>>
       /\ (CallStep(w) /\ reply'.code # 200) => reply'.header = <<>>
       /\ (GateStep(w) /\ ~overlap[req[w].uid] /\ ~req[w].ad
             /\ admitted[<<req[w].uid, today>>] >= PlanLimit(req[w].plan))
            => reply'.code = 429]_vars

\* C10 (witness): the third admitted call of a free user who never ran two
\* requests at once reports 0.
C10_Witness ==
  /\ reply.op = "speak" /\ reply.code = 200 /\ reply.decision = "Admit"
  /\ reply.header = <<0>> /\ reply.limit = 3
  /\ ~overlap[reply.uid] /\ admitted[<<reply.uid, today>>] = 3

\* C11: registration is idempotent: there is at most one User row per uid; a
\* /register call with uid and email is answered 201 when no row of that uid
\* exists, and it creates the row; it is answered 200 when one exists, and then
\* it changes nothing, whether the calls come one after the other or at once.
C11_RegisterIdempotent ==
  /\ [](\A u \in Uids : Cardinality(UserRows(u)) <= 1)
  /\ [][(reply'.op = "register" /\ reply'.code # 400) =>
          IF UserRows(reply'.uid) = {}
          THEN /\ reply'.code = 201
               /\ Cardinality({r \in users' : r.uid = reply'.uid}) = 1
          ELSE /\ reply'.code = 200
               /\ users' = users]_vars

\* The step of worker w that takes a /speak request in and looks its user up.
LookupStep(w) == req[w].pc = "idle" /\ req'[w].op = "speak"

\* Every user that exists keeps its plan tier.
PlansKept == \A r \in users : \E x \in users' : x.uid = r.uid /\ x.plan_type = r.plan_type

\* C12: /verify-purchase answers 200 exactly for an existing user and a plan of
\* the catalog, and the user then holds that plan; until the next purchase every
\* /get-user-status reports the plan held and its catalog quota (100 for
\* advanced), every /speak request looks that plan up and decides with its
\* catalog quota; a /verify-purchase answered 400 changes no state.
C12_PlanUpgrade ==
  /\ [](reply.op = "verify" =>
          /\ reply.code = IF reply.plan \in DOMAIN PLAN_LIMITS /\ UserRows(reply.uid) # {}
                          THEN 200 ELSE 400
          /\ reply.code = 200 => UserOf(reply.uid).plan_type = reply.plan)
  /\ [](reply.op = "status" /\ reply.code = 200 =>
          /\ reply.plan = UserOf(reply.uid).plan_type
          /\ reply.plan \in DOMAIN PLAN_LIMITS => reply.limit = PLAN_LIMITS[reply.plan])
  /\ [][ /\ (reply'.op = "verify" /\ reply'.code = 400) =>
              (users' = users /\ logs' = logs /\ req' = req /\ today' = today)
         /\ reply'.op # "verify" => PlansKept
         /\ \A w \in Workers :
              /\ LookupStep(w) => req'[w].plan = UserOf(req'[w].uid).plan_type
              /\ (GateStep(w) /\ req[w].plan \in DOMAIN PLAN_LIMITS) =>
                   /\ reply'.code = 429 => reply'.limit = PLAN_LIMITS[req[w].plan]
                   /\ req'[w].pc = "commit" =>
                        req'[w].limit = PLAN_LIMITS[req[w].plan] ]_vars

\* C12 (witness): after the purchase of advanced, /get-user-status reports the
\* daily limit 100.
C12_Witness ==
  /\ reply.op = "status" /\ reply.code = 200
  /\ reply.plan = "advanced" /\ reply.limit = 100
  /\ maxQuota[reply.uid] = 100

\* Every row a step adds starts with count 0.
AddedAtZero ==
  \A k \in Keys : \A i \in DOMAIN logs'[k] \ DOMAIN logs[k] : logs'[k][i] = 0

\* C13: a user whose plan tier is no key of the plan catalog has quota 0 and no
\* error is raised: its /speak request without ad proof is denied with 429, one
\* with ad proof is admitted as a bypass and neither its commit nor its call
\* raises any count; /get-user-status reports the daily limit 0.
C13_UnknownTierQuotaZero ==
  /\ [](reply.op = "status" /\ reply.code = 200 /\ reply.plan \notin DOMAIN PLAN_LIMITS
          => reply.limit = 0)
  /\ [][\A w \in Workers :
          /\ (GateStep(w) /\ req[w].plan \notin DOMAIN PLAN_LIMITS) =>
               IF req[w].ad
               THEN /\ reply' = NoReply
                    /\ req'[w].pc = "commit" /\ req'[w].decision = "AdmitBypass"
                    /\ req'[w].limit = 0 /\ req'[w].count = req'[w].read
               ELSE /\ reply'.code = 429 /\ reply'.limit = 0
                    /\ req'[w] = Idle
          /\ ((CommitStep(w) \/ CallStep(w)) /\ req[w].limit = 0) =>
               /\ CountsKept /\ AddedAtZero
               /\ CallStep(w) => reply'.code \in {200, 500}]_vars

\* C13 (witness): the first call of the day of a user of an unknown tier, with ad
\* proof, is answered 200 with X-Remaining-Credits 0 and leaves a record of count 0.
C13_Witness ==
  /\ reply.op = "speak" /\ reply.ad /\ reply.code = 200
  /\ reply.limit = 0 /\ reply.decision = "AdmitBypass" /\ reply.header = <<0>>
  /\ UserOf(reply.uid).plan_type \notin DOMAIN PLAN_LIMITS
  /\ logs[<<reply.uid, today>>] = <<0>>

\* C14: every user's plan tier is one of free, advanced, premium; a row of User
\* keeps its uid and email and is never removed; a new row appears only with a
\* /register answered 201, in tier free; and the plan tier of an existing user
\* changes only in a step of /verify-purchase answered 200.
C14_UserFieldsStable ==
  /\ [](\A r \in users : r.plan_type \in {"free", "advanced", "premium"})
  /\ [][ /\ \A r \in users : \E x \in users' : x.uid = r.uid /\ x.email = r.email
         /\ Cardinality(users') # Cardinality(users) =>
              /\ reply'.op = "register" /\ reply'.code = 201
              /\ \E x \in users' \ users :
                   /\ users' = users \cup {x}
                   /\ x.uid = reply'.uid /\ x.plan_type = "free"
         /\ ~PlansKept => (reply'.op = "verify" /\ reply'.code = 200) ]_vars

\* C14 (witness): a registered user bought the advanced plan, and a /speak
\* request of that user is being served.
C14_Witness ==
  /\ reply.op = "verify" /\ reply.code = 200 /\ reply.plan = "advanced"
  /\ UserOf(reply.uid).plan_type = "advanced"
  /\ \E w \in Workers : InFlight(w, reply.uid) /\ req[w].plan = "free"

\* C15: for every user who has held no tier but free (the plan tier never
\* changed) and every day, the number of requests admitted with remaining > 0 is
\* at most the daily quota of the tier.
C15_AdmittedWithinQuota ==
  \A k \in Keys :
    (UserRows(k[1]) # {} /\ maxQuota[k[1]] = PLAN_LIMITS.free) =>
      admitted[k] <= PlanLimit(UserOf(k[1]).plan_type)

\* C16: a /speak request of user U that read the calendar on day D appends to or
\* updates only the rows of (U, D): every other (user, day) keeps its rows as
\* they are, no step removes a row, only a commit of /speak changes the table,
\* and a request that finds no record of its day starts from a new one of count
\* 0, which its commit appends with count 0 or 1.
C16_OnlyTodaysRecord ==
  [][ /\ \A k \in Keys : Len(logs'[k]) >= Len(logs[k])
      /\ (\A w \in Workers : ~CommitStep(w)) => logs' = logs
      /\ \A w \in Workers :
           /\ CommitStep(w) =>
                /\ \A k \in Keys \ {<<req[w].uid, req[w].day>>} : logs'[k] = logs[k]
                /\ req[w].created =>
                     /\ req[w].read = 0 /\ req[w].count \in {0, 1}
                     /\ logs'[<<req[w].uid, req[w].day>>] =
                          Append(logs[<<req[w].uid, req[w].day>>], req[w].count)
           /\ (GateStep(w) /\ req'[w].pc = "commit") =>
                /\ req'[w].day = today
                /\ req'[w].created = (LogRows(req[w].uid, today) = {})
                /\ req'[w].created => req'[w].read = 0 ]_vars

\* C16 (witness): on the second day the first request of a user is answered
\* while the first day has records of both users and the other user has one of
\* the second day.
C16_Witness ==
  /\ today = 2
  /\ reply.op = "speak" /\ reply.code = 200 /\ reply.created /\ reply.uid = "u1"
  /\ logs[<<"u1", 1>>] # <<>> /\ logs[<<"u2", 1>>] # <<>>
  /\ logs[<<"u1", 2>>] = <<1>> /\ logs[<<"u2", 2>>] # <<>>

\* C17: the response of an admitted or bypassed /speak request is one of three:
\* 200 with the audio and the X-Remaining-Credits header when the provider call
\* and the decode succeed; 500 with the provider's error when the provider
\* answers an HTTP error status; 500 with the generic error on a network or a
\* decode failure; an error response carries neither audio nor the header, and
\* the step that answers ends the request.
C17_OutcomeMapping ==
  /\ [](reply.op = "speak" /\ reply.decision \in {"Admit", "AdmitBypass"} =>
          /\ reply.outcome \in Outcomes
          /\ reply.outcome = "ok" =>
               (reply.code = 200 /\ reply.body = "audio" /\ Len(reply.header) = 1)
          /\ reply.outcome = "http_error" =>
               (reply.code = 500 /\ reply.body = "google_api_error"
                  /\ reply.header = <<>>)
          /\ reply.outcome \in {"network_error", "decode_error"} =>
               (reply.code = 500 /\ reply.body = "unexpected_error"
                  /\ reply.header = <<>>))
  /\ [](reply.body = "audio" <=> reply.code = 200 /\ reply.op = "speak")
  /\ [][\A w \in Workers :
          /\ CallStep(w) =>
               /\ reply'.op = "speak" /\ reply'.decision = req[w].decision
               /\ reply'.decision \in {"Admit", "AdmitBypass"}
               /\ req'[w] = Idle
          /\ CommitStep(w) => req[w].decision \in {"Admit", "AdmitBypass"}]_vars

\* C17 (witness): the provider answered a bypassed request with an HTTP error.
C17_Witness ==
  /\ reply.op = "speak" /\ reply.decision = "AdmitBypass"
  /\ reply.outcome = "http_error"
  /\ reply.code = 500 /\ reply.body = "google_api_error" /\ reply.header = <<>>

\* t is s without the blanks at its two ends.
Trimmed(s, t) ==
  \E i \in 1..(Len(s) + 1), j \in 0..Len(s) :
    /\ t = SubSeq(s, i, j)
    /\ \A n \in 1..(i - 1) : s[n] = " "
    /\ \A n \in (j + 1)..Len(s) : s[n] = " "
    /\ t # <<>> => (t[1] # " " /\ t[Len(t)] # " ")

\* C18: get_emotional_ssml never raises; it returns the reply of the generative
\* model, trimmed of surrounding blanks, when the credential is set, the call
\* returned, and the trimmed reply starts with <speak> and ends with </speak>;
\* in every other case it returns <speak> + text + </speak>; so the result always
\* starts and ends with the envelope markers.
C18_EnrichTotalFallback ==
  enrich.pc = "done" =>
    LET reply_text == enrich.gemini.text
        plain == <<"<speak>">> \o enrich.text \o <<"</speak>">>
        usable ==
          /\ enrich.key /\ enrich.gemini.kind = "reply"
          /\ \E t \in Strings(MaxReplyLen) :
               /\ Trimmed(reply_text, t) /\ t # <<>>
               /\ t[1] = "<speak>" /\ t[Len(t)] = "</speak>"
    IN  /\ ~enrich.raised
        /\ enrich.result # <<>>
        /\ enrich.result[1] = "<speak>"
        /\ enrich.result[Len(enrich.result)] = "</speak>"
        /\ IF usable THEN Trimmed(reply_text, enrich.result)
           ELSE enrich.result = plain

\* C18 (witness): the generative model returned a reply that opens the envelope
\* and does not close it, and the text comes back wrapped verbatim.
C18_Witness ==
  /\ enrich.pc = "done" /\ enrich.key
  /\ enrich.gemini = [kind |-> "reply", text |-> <<"<speak>", "x", " ">>]
  /\ enrich.text = <<"x", "x">>
  /\ enrich.result = <<"<speak>", "x", "x", "</speak>">>

\* C19: the count of every record is a non-negative integer, and every step
\* leaves it as it is or raises it by one: it never decreases.
C19_CountMonotone ==
  /\ [](\A k \in Keys : \A i \in DOMAIN logs[k] : logs[k][i] \in Nat)
  /\ [][\A k \in Keys : \A i \in DOMAIN logs[k] :
          /\ i \in DOMAIN logs'[k]
          /\ logs'[k][i] >= logs[k][i]
          /\ logs'[k][i] <= logs[k][i] + 1]_vars

\* C20: the X-Remaining-Credits value of every /speak response answered 200 is
\* an integer between 0 and the quota the request decided with.
C20_HeaderNonNegative ==
  (reply.op = "speak" /\ reply.code = 200) =>
    /\ Len(reply.header) = 1
    /\ reply.header[1] >= 0
    /\ reply.header[1] <= reply.limit
====
